---- MODULE Spec2Model ----
(***************************************************************************)
(* Fixed-timestep stepper (class Simulation, src/final_project.js lines     *)
(* 436-490), the scene that overrides its update_state (TotoroScene, lines *)
(* 599-871: rain pool, scene clock, scripted timeline, jump), the earlier  *)
(* revision of that scene kept in the same file (lines 64-290) and the     *)
(* Assignment3 pool (src/assignment3.js).  An object of one of the classes *)
(* is stepped by display calls; between two display calls the owner may    *)
(* change time_scale or press a key.  JavaScript runs one handler at a     *)
(* time, so while pc = "loop" only simulate itself moves.                  *)
(*                                                                         *)
(* Five sets of behaviours are explored:                                   *)
(*   Spec      the stepper under all frame times and time scales, a few    *)
(*             display calls long (SpecAnyDt: also with dt <= 0);          *)
(*   SpecPool  the three pools side by side under all their spawn draws,   *)
(*             a few display calls long;                                   *)
(*   SpecLong  80 s of scene time at full size with one draw per pool:     *)
(*             Totoro arrives, the scene pauses, the user makes him jump;  *)
(*   SpecKeys  the script up to the first moments of the pause with every  *)
(*             key of the control panel pressed at any time;               *)
(*   SpecScene the final TotoroScene through the pause and past Totoro's   *)
(*             turn to the viewer, with the J and C keys.                  *)
(*                                                                         *)
(* Units.  JavaScript numbers are modelled as exact fixed-point integers:  *)
(*   time (frame_time, dt, t, time_accumulator)   milliseconds             *)
(*   time_scale                                   fifths (5 stands for 1)  *)
(*   velocities                                   1/1000 world unit / s    *)
(*   positions                                    1/1000000 world unit     *)
(*   angles                                       1/1000000 radian         *)
(* so that velocity * dt is a position and gravity * dt is a velocity      *)
(* without rounding; a bounce of Assignment3 is kept to 1/1000 unit/s.     *)
(* Floating-point rounding is outside the model.                           *)
(***************************************************************************)
EXTENDS Integers, Sequences, FiniteSets, TLC

VARIABLES
    cls,               \* class of the scene object: "Simulation" | "TotoroScene" |
                       \* "TotoroSceneEarly" (the earlier revision, lines 1-435) | "Assignment3"
    time_accumulator,  \* Simulation.time_accumulator
    time_scale,        \* Simulation.time_scale (fifths)
    t,                 \* Simulation.t
    dt,                \* Simulation.dt
    bodies,            \* Simulation.bodies
    steps_taken,       \* Simulation.steps_taken
    raining,           \* Simulation.raining
    rain_count,        \* TotoroScene.rain_count
    pc,                \* position inside display/simulate: "idle" | "loop"
    frame_time,        \* simulate's local frame_time after scaling (line 451)
    thrown,            \* exception that left the last display call, or "none"
    drawn,             \* what the last display call handed to shape.draw
    h,                 \* history of the calls (observation only, never read by the program)
    time,              \* TotoroScene.time: the scene clock (ms)
    time_diff,         \* TotoroScene.time_diff: scene time spent paused (ms)
    paused,            \* TotoroScene.paused
    scene,             \* TotoroScene.scene
    lightOn,           \* TotoroScene.lightOn
    umbrellaState,     \* TotoroScene.umbrellaState
    totoroPos,         \* TotoroScene.totoroPos (1/1000 world unit)
    facing_angle,      \* TotoroScene.totoro.facing_angle (1/1000000 radian)
    totoroPosY,        \* TotoroScene.totoroPosY (1/1000000 world unit)
    totoroJump,        \* TotoroScene.totoroJump
    totoroIsJumping,   \* TotoroScene.totoroIsJumping
    totoroJump_start   \* TotoroScene.totoroJump_start (ms)

sceneVars == <<time, time_diff, paused, scene, lightOn, umbrellaState, totoroPos,
               facing_angle, totoroPosY, totoroJump, totoroIsJumping, totoroJump_start>>

vars == <<cls, time_accumulator, time_scale, t, dt, bodies, steps_taken, raining,
          rain_count, pc, frame_time, thrown, drawn, h, sceneVars>>

-----------------------------------------------------------------------------
(* Bounds of the model *)

MaxCalls == 3          \* display calls with animate = true in one behaviour
MaxSteps == 16         \* sub-steps in one behaviour (caps the loop when dt <= 0)
MaxScale == 5          \* |time_scale| stays <= MaxScale fifths (normal speed)
normal_rain_count == 1 \* TotoroScene.normal_rain_count, scaled down from 500
body_count == 1        \* Assignment3 keeps 30 bodies, scaled down
MaxLongCalls == 800    \* display calls of one behaviour that follows the whole script
MaxLongSteps == 1600   \* sub-steps of such a behaviour: 80 s of scene time
MaxSceneCalls == 880   \* display calls of a behaviour that follows the scene through the pause
MaxSceneSteps == 1745  \* sub-steps of such a behaviour: the turn to the viewer ends in pass 1730
MaxContinues == 2      \* presses of "Continue scene" while the scene is paused
MaxKeySteps == 1474    \* sub-steps of a behaviour of the control panel: the pause begins in pass 1468

(* Inputs *)
FrameTimes == {20, 170}           \* animation_delta_time values (ms)
TimeScales == {-5, 0, 5}          \* values the owner assigns to time_scale: -1, 0, 1
DtValues == {50, 30}              \* positive step sizes; 50 is the constructor's 1/20
BadDtValues == {0, -50}           \* non-positive step sizes
SpawnHeights == {400000, 600000}  \* heights drawn by randomized(40) about y = 10
\* draws of the earlier revision: a height below and one just above its floor;
\* vec3(0, -1, 0).normalized().times(3) is straight down at speed 3
EarlySpawns ==
    {[at |-> <<0, -1000000, 0>>, velocity |-> <<0, -3000, 0>>],
     [at |-> <<0, 100000, 0>>, velocity |-> <<0, -3000, 0>>]}
\* draws of Assignment3: vec3(0, 10, 0).randomized(40) reaches heights -10..30, and
\* vec3(0, -1, 0).randomized(2).normalized().times(3) is any direction of speed 3
\* with a downward part
Assignment3Spawns ==
    {[at |-> <<0, -9000000, 0>>, velocity |-> <<0, -3000, 0>>],
     [at |-> <<0, -7900000, 0>>, velocity |-> <<1800, -2400, 0>>]}

\* draws used when a behaviour follows the script for minutes: one per pool;
\* Assignment3's is the far upper corner of the spawn box, thrown outwards almost
\* level (speed 3 to the 1/1000), so that the body is still fast at the top of a bounce
LongFrameTimes == {100}
LongHeights == {600000}
LongEarlySpawns == {[at |-> <<0, 100000, 0>>, velocity |-> <<0, -3000, 0>>]}
LongAssignment3Spawns ==
    {[at |-> <<20000000, 30000000, 20000000>>, velocity |-> <<2121, -1, 2121>>]}

-----------------------------------------------------------------------------
(* Program constants *)

TimeFactor == 5        \* time_scale *= 5, time_scale /= 5; also the unit of time_scale
AccClamp == 100        \* Math.min(frame_time, 0.1)
Gravity == 1           \* dt * -1
FloorHeight == 500000  \* b.center[1] < 0.5
KeepSpeed == 1200      \* b.linear_velocity.norm() > 1.2
GroundY == 1100000     \* this.totoroPosY = 1.1
HalfPi == 1570796      \* Math.PI / 2
WalkStep == 30         \* this.totoro_walk(0.03)
StartPos == 20000      \* this.totoroPos = 20
EarlyFloor == 0                  \* earlier revision: b.center[1] < 0
EarlyRestitution == 2            \* earlier revision: *= -.2 (tenths)
EarthGravity == 98               \* Assignment3: dt * -9.8 (tenths)
Assignment3Floor == -8000000     \* Assignment3: b.center[1] < -8
Assignment3Restitution == 8      \* Assignment3: *= -.8 (tenths)
FarAway == 5000                  \* b.center.norm() < 50 (1/100 world unit)
SlowSpeed == 3000                \* b.linear_velocity.norm() > 3
SpawnSpeed == 1300     \* vec3(0, -1, 0).normalized().times(1.3)
jump_rain_count == 2 * normal_rain_count

-----------------------------------------------------------------------------
(* Arithmetic helpers: Math.abs, Math.min, Math.sign *)

Abs(x) == IF x < 0 THEN -x ELSE x

Min(a, b) == IF a < b THEN a ELSE b

Sign(x) == IF x > 0 THEN 1 ELSE IF x < 0 THEN -1 ELSE 0

-----------------------------------------------------------------------------
(* Body (examples/collisions-demo.js): emplace, advance, blend_state *)

emplace(location, velocity, material) ==
    [center |-> location, previous |-> location, drawn_location |-> location,
     linear_velocity |-> velocity, material |-> material]

\* advance(time_amount): previous := center; center += linear_velocity * time_amount
advance(b, time_amount) ==
    [b EXCEPT !.previous = b.center,
              !.center = [i \in 1..3 |-> b.center[i] + b.linear_velocity[i] * time_amount]]

\* previous.center.mix(center, alpha) with alpha = num / den
Mix(p, c, num, den) == [i \in 1..3 |-> p[i] + ((c[i] - p[i]) * num) \div den]

\* blend_state(alpha): drawn_location := lerp(previous, center, alpha)
blend_state(b, num, den) ==
    [b EXCEPT !.drawn_location = Mix(b.previous, b.center, num, den)]

-----------------------------------------------------------------------------
(* Simulation.simulate, line by line *)

\* the frame time taken as it comes, time_scale forgotten
UnscaledFrameTime(scale, ft) == ft

\* frame_time = this.time_scale * frame_time
ScaledFrameTime(scale, ft) == (scale * ft) \div TimeFactor

\* no ceiling on what one call adds
Unclamped(ft) == ft

\* Math.max where Math.min is meant
ClampedFromBelow(ft) == IF ft > AccClamp THEN ft ELSE AccClamp

\* Math.min(frame_time, 0.1)
Clamped(ft) == Min(ft, AccClamp)

\* > where >= is meant
LoopCondStrict(acc, d) == Abs(acc) > d

\* Math.abs forgotten
LoopCondSigned(acc, d) == acc >= d

\* a loop that refuses a non-positive step
LoopCondPositive(acc, d) == d > 0 /\ Abs(acc) >= d

\* Math.abs(this.time_accumulator) >= this.dt
LoopCond(acc, d) == Abs(acc) >= d

\* a variable time step: t follows the frame time
StepTByFrame(now, ft, d) == now + ft

\* t that only ever moves forward
StepTForward(now, ft, d) == now + d

\* this.t += Math.sign(frame_time) * this.dt
StepT(now, ft, d) == now + Sign(ft) * d

\* Math.sign forgotten: the accumulator always steps down
StepAccumulatorForward(acc, ft, d) == acc - d

\* this.time_accumulator -= Math.sign(frame_time) * this.dt
StepAccumulator(acc, ft, d) == acc - Sign(ft) * d

\* an advance loop that stops short of the newest body
AdvanceAllButLast(bs, d) ==
    [i \in 1..Len(bs) |-> IF i < Len(bs) THEN advance(bs[i], d) ELSE bs[i]]

\* for (let b of this.bodies) b.advance(this.dt)
AdvanceAll(bs, d) == [i \in 1..Len(bs) |-> advance(bs[i], d)]

\* alpha = time_accumulator / dt; for (let b of this.bodies) b.blend_state(alpha)
BlendAll(bs, acc, d) == [i \in 1..Len(bs) |-> blend_state(bs[i], acc, d)]

\* Simulation.display: what reaches b.shape.draw
Draw(bs, isRaining) ==
    IF isRaining THEN [i \in 1..Len(bs) |-> <<bs[i].drawn_location, bs[i].material>>]
    ELSE << >>

-----------------------------------------------------------------------------
(* TotoroScene.update_state: the rain pool *)

\* every drop drawn with the ordinary rain material
SpawnMaterialPlain(count) == "rain"

SpawnMaterial(count) == IF count = jump_rain_count THEN "rainBright" ELSE "rain"

\* the objects created before a pass of the loop are numbered up to Born(passes made):
\* no call pushes more than jump_rain_count bodies, or body_count in Assignment3
Born(passes) == passes * (jump_rain_count + body_count)

\* a replenish loop that takes its bodies back from a free list: the objects pushed
\* are those created first
ReplenishRecycling(bs, count, ys, born) ==
    bs \o [i \in 1..Len(ys) |->
             [id |-> i] @@
             emplace(<<0, ys[i], 0>>, <<0, -SpawnSpeed, 0>>, SpawnMaterial(count))]

\* while (bodies.length < rain_count) bodies.push(new Body(...).emplace(...));
\* ys are the heights the random source yields, one per pushed body
\* (x and z of the spawn box are represented by its centre, 0); every
\* new Body is a fresh object: id numbers the objects in creation order,
\* the i-th object pushed by a call being number born + i
Replenish(bs, count, ys, born) ==
    bs \o [i \in 1..Len(ys) |->
             [id |-> born + i] @@
             emplace(<<0, ys[i], 0>>, <<0, -SpawnSpeed, 0>>, SpawnMaterial(count))]

\* a replenish loop that always fills up to the burst size
DeficitOfBurst(bs, count) == IF Len(bs) < jump_rain_count THEN jump_rain_count - Len(bs) ELSE 0

\* the number of passes of while (this.bodies.length < this.rain_count)
Deficit(bs, count) == IF Len(bs) < count THEN count - Len(bs) ELSE 0

\* a target that stays raised after the burst
RainCountKept(count) == count

\* if (rain_count === jump_rain_count) rain_count = normal_rain_count
RainCountAfter(count) == IF count = jump_rain_count THEN normal_rain_count ELSE count

\* earlier revision: if (rain_count > normal_rain_count) rain_count = normal_rain_count
RainCountAfterEarly(count) == IF count > normal_rain_count THEN normal_rain_count ELSE count

\* gravity that forgets the step size: one unit/s per call
ApplyGravityPerCall(b, d) ==
    [b EXCEPT !.linear_velocity[2] = b.linear_velocity[2] - 1000 * Gravity]

\* b.linear_velocity[1] += dt * -1
ApplyGravity(b, d) ==
    [b EXCEPT !.linear_velocity[2] = b.linear_velocity[2] + d * (-Gravity)]

NormSq(v) == v[1] * v[1] + v[2] * v[2] + v[3] * v[3]

\* filter(b => b.linear_velocity[1] <= 0 || b.linear_velocity.norm() > 1.2)
KeepAlive(b) ==
    b.linear_velocity[2] <= 0 \/ NormSq(b.linear_velocity) > KeepSpeed * KeepSpeed

\* no floor at all
FloorResponseNone(b) == b

\* the floor response of the earlier revision: the velocity turns, the height stays
FloorResponseNoLift(b) ==
    IF b.center[2] < FloorHeight /\ b.linear_velocity[2] < 0
    THEN [b EXCEPT !.linear_velocity[2] = (b.linear_velocity[2] * (-2)) \div 10]
    ELSE b

\* if (center[1] < 0.5 && linear_velocity[1] < 0) { linear_velocity[1] *= -.2; center[1] = 0.5 }
FloorResponse(b) ==
    IF b.center[2] < FloorHeight /\ b.linear_velocity[2] < 0
    THEN [b EXCEPT !.linear_velocity[2] = (b.linear_velocity[2] * (-2)) \div 10,
                   !.center[2] = FloorHeight]
    ELSE b

\* the body list after each pass of update_state(d) over it
PoolPasses(bs, count, ys, d, born) ==
    LET spawned == Replenish(bs, count, ys, born)
        pulled == [i \in 1..Len(spawned) |-> ApplyGravity(spawned[i], d)]
        kept == SelectSeq(pulled, KeepAlive)
    IN  [before |-> bs, target |-> count, step |-> d,
         spawned |-> spawned, pulled |-> pulled,
         floor_in |-> kept,
         floor_out |-> [i \in 1..Len(kept) |-> FloorResponse(kept[i])],
         final |-> [i \in 1..Len(kept) |-> FloorResponse(kept[i])]]

\* bodies at the end of update_state(d)
update_state(bs, count, ys, d, born) == PoolPasses(bs, count, ys, d, born).final

-----------------------------------------------------------------------------
(* The two other pools: the earlier revision of TotoroScene.update_state    *)
(* (src/final_project.js lines 196-214) and Assignment3.update_state        *)
(* (src/assignment3.js lines 21-39).  Both pull and bounce a body in one    *)
(* loop and filter afterwards, on distance from the origin and on speed.    *)

\* new Body(...).emplace(Mat4.translation(...at), velocity, ...), the k-th object created
Spawn(k, at, velocity, material) == [id |-> k] @@ emplace(at, velocity, material)

\* while (this.bodies.length < target) this.bodies.push(...): ws are the random draws,
\* one [at, velocity] pair per pushed body
ReplenishFrom(bs, ws, material, born) ==
    bs \o [i \in 1..Len(ws) |-> Spawn(born + i, ws[i].at, ws[i].velocity, material)]

\* b.linear_velocity[1] += dt * -9.8
ApplyEarthGravity(b, d) ==
    [b EXCEPT !.linear_velocity[2] = b.linear_velocity[2] + (d * (-EarthGravity)) \div 10]

\* a floor that gives the whole speed back
BounceElastic(b, floor, restitution) ==
    IF b.center[2] < floor /\ b.linear_velocity[2] < 0
    THEN [b EXCEPT !.linear_velocity[2] = -b.linear_velocity[2]]
    ELSE b

\* if (b.center[1] < floor && b.linear_velocity[1] < 0) b.linear_velocity[1] *= -restitution
\* (restitution in tenths; the product is kept to 1/1000 unit/s)
Bounce(b, floor, restitution) ==
    IF b.center[2] < floor /\ b.linear_velocity[2] < 0
    THEN [b EXCEPT !.linear_velocity[2] = (b.linear_velocity[2] * (-restitution)) \div 10]
    ELSE b

\* a position in 1/100 world unit, so that its squared norm fits the integers
Coarse(p) == <<p[1] \div 10000, p[2] \div 10000, p[3] \div 10000>>

\* a filter on speed alone
KeepFast(b) == NormSq(b.linear_velocity) > SlowSpeed * SlowSpeed

\* filter(b => b.center.norm() < 50 && b.linear_velocity.norm() > 3)
KeepNearAndFast(b) ==
    /\ NormSq(Coarse(b.center)) < FarAway * FarAway
    /\ NormSq(b.linear_velocity) > SlowSpeed * SlowSpeed

\* the body list after each pass of the earlier TotoroScene.update_state(d)
EarlyPasses(bs, count, ws, d, born) ==
    LET spawned == ReplenishFrom(bs, ws, SpawnMaterial(count), born)
        pulled == [i \in 1..Len(spawned) |-> ApplyGravity(spawned[i], d)]
        bounced == [i \in 1..Len(pulled) |-> Bounce(pulled[i], EarlyFloor, EarlyRestitution)]
    IN  [before |-> bs, target |-> count, step |-> d,
         spawned |-> spawned, pulled |-> pulled,
         floor_in |-> pulled, floor_out |-> bounced,
         final |-> SelectSeq(bounced, KeepNearAndFast)]

\* the body list after each pass of Assignment3.update_state(d)
Assignment3Passes(bs, ws, d, born) ==
    LET spawned == ReplenishFrom(bs, ws, "plastic", born)
        pulled == [i \in 1..Len(spawned) |-> ApplyEarthGravity(spawned[i], d)]
        bounced == [i \in 1..Len(pulled) |->
                      Bounce(pulled[i], Assignment3Floor, Assignment3Restitution)]
    IN  [before |-> bs, target |-> body_count, step |-> d,
         spawned |-> spawned, pulled |-> pulled,
         floor_in |-> pulled, floor_out |-> bounced,
         final |-> SelectSeq(bounced, KeepNearAndFast)]

-----------------------------------------------------------------------------
(* TotoroScene.update_state: the scene clock and the scripted timeline.     *)
(* A scene is the record of the fields the script reads and writes; angles  *)
(* of the umbrellas, the camera and the shapes are only drawn, never read   *)
(* by the stepper or the pool, and are left out.                            *)

\* a pause clock that runs whether the scene is paused or not
TickAlways(sc, d) == [sc EXCEPT !.time = @ + d, !.time_diff = @ + d]

\* this.time += dt; if (this.paused) this.time_diff += dt
Tick(sc, d) ==
    [sc EXCEPT !.time = @ + d,
               !.time_diff = IF sc.paused THEN @ + d ELSE @]

\* totoro_walk(dPos): this.totoroPos += dPos
totoro_walk(sc, dPos) == [sc EXCEPT !.totoroPos = @ + dPos]

\* 2.5 * (time - start) - (time - start)^2 + 1.1, time in ms, height in 1/1000000 unit
JumpHeight(elapsed) == 2500 * elapsed - elapsed * elapsed + GroundY

\* totoro_jump(time)
totoro_jump(sc, now) ==
    LET y == JumpHeight(now - sc.totoroJump_start)
    IN  IF y < GroundY
        THEN [sc EXCEPT !.totoroPosY = GroundY, !.totoroJump = FALSE,
                        !.totoroJump_start = 0, !.totoroIsJumping = FALSE,
                        !.rain_count = jump_rain_count]
        ELSE [sc EXCEPT !.totoroPosY = y]

\* scenes 1 and 2 and the street light
Opening(sc) ==
    LET a == IF sc.time > 0 /\ sc.time < 10000 THEN [sc EXCEPT !.scene = 1] ELSE sc
        b == IF a.time > 10000 /\ a.time < 10100 THEN [a EXCEPT !.lightOn = TRUE] ELSE a
    IN  IF b.time > 20000 /\ b.time < 40000 THEN [b EXCEPT !.scene = 2] ELSE b

\* Totoro walks to the bus stop, then turns to the camera; the turn pauses the scene
Arrival(sc) ==
    LET a == IF sc.time > 40000 /\ sc.time < 80000 /\ sc.totoroPos > 0
             THEN totoro_walk([sc EXCEPT !.facing_angle = -HalfPi], -WalkStep)
             ELSE sc
    IN  IF a.totoroPos <= 0 /\ a.facing_angle < 0
        THEN [a EXCEPT !.facing_angle = @ + 6000, !.paused = TRUE]
        ELSE a

\* if (this.paused) { ... if (this.totoroJump) { ... this.totoro_jump(this.time) } }
Interactivity(sc) ==
    IF sc.paused /\ sc.totoroJump
    THEN LET a == [sc EXCEPT !.totoroIsJumping = TRUE,
                             !.totoroJump_start = IF @ = 0 THEN sc.time ELSE @]
         IN  totoro_jump(a, a.time)
    ELSE sc

\* if (!this.paused) { ... }: the rest of the script runs on time - time_diff;
\* leaving lasts until 135 s (200 s in the earlier revision)
Departure(sc, leaveEnd) ==
    LET eff == sc.time - sc.time_diff
        a == IF eff > 100000 /\ sc.facing_angle < HalfPi
             THEN [sc EXCEPT !.facing_angle = @ + 5000] ELSE sc
    IN  IF sc.paused THEN sc
        ELSE IF eff > 113000 /\ eff < leaveEnd THEN totoro_walk(a, WalkStep) ELSE a

LeaveEnd(c) == IF c = "TotoroSceneEarly" THEN 200000 ELSE 135000

\* the script of update_state after the pool passes
Timeline(sc, c) == Departure(Interactivity(Arrival(Opening(sc))), LeaveEnd(c))

\* the scene fields as one record
SceneNow ==
    [time |-> time, time_diff |-> time_diff, paused |-> paused, scene |-> scene,
     lightOn |-> lightOn, totoroPos |-> totoroPos, facing_angle |-> facing_angle,
     totoroPosY |-> totoroPosY, totoroJump |-> totoroJump,
     totoroIsJumping |-> totoroIsJumping, totoroJump_start |-> totoroJump_start,
     rain_count |-> rain_count]

\* the assignments update_state makes to the scene fields, given the scene at its end
SceneBecomes(sc) ==
    /\ time' = sc.time
    /\ time_diff' = sc.time_diff
    /\ paused' = sc.paused
    /\ scene' = sc.scene
    /\ lightOn' = sc.lightOn
    /\ totoroPos' = sc.totoroPos
    /\ facing_angle' = sc.facing_angle
    /\ totoroPosY' = sc.totoroPosY
    /\ totoroJump' = sc.totoroJump
    /\ totoroIsJumping' = sc.totoroIsJumping
    /\ totoroJump_start' = sc.totoroJump_start
    /\ rain_count' = sc.rain_count

\* update_state(d) on the scene fields: clock, pool target, script
SceneAfter(sc, d, c) ==
    Timeline([Tick(sc, d) EXCEPT !.rain_count = IF c = "TotoroSceneEarly"
                                                THEN RainCountAfterEarly(@)
                                                ELSE RainCountAfter(@)], c)

-----------------------------------------------------------------------------
(* Construction *)

NoCall == [calls |-> 0, last |-> "new", scale |-> 0, added |-> 0, entry_acc |-> 0,
           substeps |-> 0, sum |-> 0, scale_one |-> TRUE, forward |-> TRUE,
           failed |-> FALSE, total |-> 0, fwd |-> 0, rev |-> 0, continues |-> 0,
           update |-> [before |-> << >>, target |-> 0, step |-> 0, spawned |-> << >>,
                       pulled |-> << >>, floor_in |-> << >>, floor_out |-> << >>,
                       final |-> << >>]]

InitWith(classes, steps) ==
    /\ cls \in classes
    /\ time_accumulator = 0
    /\ time_scale = TimeFactor
    /\ t = 0
    /\ dt \in steps
    /\ bodies = << >>
    /\ steps_taken = 0
    /\ raining = TRUE
    /\ rain_count = normal_rain_count
    /\ pc = "idle"
    /\ frame_time = 0
    /\ thrown = "none"
    /\ drawn = << >>
    /\ h = NoCall
    /\ time = 0
    /\ time_diff = 0
    /\ paused = FALSE
    /\ scene = 1
    /\ lightOn = FALSE
    /\ umbrellaState = TRUE
    /\ totoroPos = StartPos
    /\ facing_angle = 0
    /\ totoroPosY = GroundY
    /\ totoroJump = FALSE
    /\ totoroIsJumping = FALSE
    /\ totoroJump_start = 0

Init == InitWith({"Simulation", "TotoroScene"}, DtValues)

InitAnyDt == InitWith({"Simulation", "TotoroScene"}, DtValues \cup BadDtValues)

-----------------------------------------------------------------------------
(* Operations *)

\* the animate flag ignored
AnimatingAlways(animate) == TRUE

\* if (program_state.animate)
Animating(animate) == animate

\* simulate(ft) up to the while loop: scale, clamp, accumulate
SimulateBegin(ft) ==
    /\ frame_time' = ScaledFrameTime(time_scale, ft)
    /\ time_accumulator' = time_accumulator + Clamped(frame_time')
    /\ pc' = "loop"
    /\ UNCHANGED drawn

\* display(context, program_state): simulate when animating, else draw the bodies as they are;
\* a behaviour holds at most cap animated calls
DisplayWithin(cap, animate, ft) ==
    /\ pc = "idle"
    /\ animate => h.calls < cap
    /\ IF Animating(animate)
       THEN SimulateBegin(ft)
       ELSE /\ drawn' = Draw(bodies, raining)
            /\ UNCHANGED <<time_accumulator, pc, frame_time>>
    /\ thrown' = "none"
    /\ h' = IF animate
            THEN [h EXCEPT !.calls = @ + 1, !.last = "simulate", !.scale = time_scale,
                           !.added = time_accumulator' - time_accumulator,
                           !.entry_acc = time_accumulator,
                           !.substeps = 0, !.sum = @ + ft,
                           !.total = @ + Min((time_scale * ft) \div TimeFactor, AccClamp),
                           !.scale_one = @ /\ time_scale = TimeFactor,
                           !.forward = @ /\ ScaledFrameTime(time_scale, ft) >= 0]
            ELSE [h EXCEPT !.last = "still"]
    /\ UNCHANGED <<cls, time_scale, t, dt, bodies, steps_taken, raining, rain_count, sceneVars>>

Display(animate, ft) == DisplayWithin(MaxCalls, animate, ft)

\* the time amount handed to update_state and to advance following the sign of the frame time
StepArgumentSigned(ft, d) == Sign(ft) * d

\* the time amount handed to update_state and to every advance: this.dt (lines 459-461)
StepArgument(ft, d) == d

\* the history of a call after one more pass, forward and reverse passes counted apart
Counted(hh, ft) ==
    [hh EXCEPT !.substeps = @ + 1,
               !.fwd = @ + (IF ft > 0 THEN 1 ELSE 0),
               !.rev = @ + (IF ft < 0 THEN 1 ELSE 0)]

\* what every completed pass of the while loop does after update_state and advance
\* (lines 464-466)
StepClock ==
    /\ t' = StepT(t, frame_time, dt)
    /\ time_accumulator' = StepAccumulator(time_accumulator, frame_time, dt)
    /\ steps_taken' = steps_taken + 1

\* one pass of the while loop of simulate, update_state overridden by TotoroScene;
\* a behaviour holds at most cap passes, heights are the draws of the random source
SubStepWithin(cap, heights) ==
    /\ pc = "loop"
    /\ LoopCond(time_accumulator, dt)
    /\ steps_taken < cap
    /\ cls = "TotoroScene"
    /\ \E ys \in [1..Deficit(bodies, rain_count) -> heights] :
          LET d == StepArgument(frame_time, dt)
          IN  /\ bodies' = AdvanceAll(update_state(bodies, rain_count, ys, d,
                                                   Born(steps_taken)), d)
              /\ h' = [Counted(h, frame_time) EXCEPT
                            !.update = PoolPasses(bodies, rain_count, ys, d,
                                                  Born(steps_taken))]
    /\ SceneBecomes(SceneAfter(SceneNow, StepArgument(frame_time, dt), cls))
    /\ StepClock
    /\ UNCHANGED <<cls, time_scale, dt, raining, pc, frame_time, thrown, drawn, umbrellaState>>

SubStep == SubStepWithin(MaxSteps, SpawnHeights)

\* the same pass with the update_state of the earlier revision of TotoroScene
SubStepEarlyWithin(cap, draws) ==
    /\ pc = "loop"
    /\ LoopCond(time_accumulator, dt)
    /\ steps_taken < cap
    /\ cls = "TotoroSceneEarly"
    /\ \E ws \in [1..Deficit(bodies, rain_count) -> draws] :
          LET d == StepArgument(frame_time, dt)
              passes == EarlyPasses(bodies, rain_count, ws, d, Born(steps_taken))
          IN  /\ bodies' = AdvanceAll(passes.final, d)
              /\ h' = [Counted(h, frame_time) EXCEPT !.update = passes]
    /\ SceneBecomes(SceneAfter(SceneNow, StepArgument(frame_time, dt), cls))
    /\ StepClock
    /\ UNCHANGED <<cls, time_scale, dt, raining, pc, frame_time, thrown, drawn, umbrellaState>>

SubStepEarly == SubStepEarlyWithin(MaxSteps, EarlySpawns)

\* the same pass with Assignment3.update_state, which has no scene script
SubStepAssignment3Within(cap, draws) ==
    /\ pc = "loop"
    /\ LoopCond(time_accumulator, dt)
    /\ steps_taken < cap
    /\ cls = "Assignment3"
    /\ \E ws \in [1..Deficit(bodies, body_count) -> draws] :
          LET d == StepArgument(frame_time, dt)
              passes == Assignment3Passes(bodies, ws, d, Born(steps_taken))
          IN  /\ bodies' = AdvanceAll(passes.final, d)
              /\ h' = [Counted(h, frame_time) EXCEPT !.update = passes]
    /\ StepClock
    /\ UNCHANGED <<cls, time_scale, dt, raining, rain_count, pc, frame_time, thrown, drawn,
                   sceneVars>>

SubStepAssignment3 == SubStepAssignment3Within(MaxSteps, Assignment3Spawns)

\* a base update_state that silently does nothing
SubStepSilent ==
    /\ pc = "loop"
    /\ LoopCond(time_accumulator, dt)
    /\ steps_taken < MaxSteps
    /\ cls = "Simulation"
    /\ bodies' = AdvanceAll(bodies, StepArgument(frame_time, dt))
    /\ t' = StepT(t, frame_time, dt)
    /\ time_accumulator' = StepAccumulator(time_accumulator, frame_time, dt)
    /\ steps_taken' = steps_taken + 1
    /\ h' = Counted(h, frame_time)
    /\ UNCHANGED <<cls, time_scale, dt, raining, rain_count, pc, frame_time, thrown, drawn, sceneVars>>

\* one pass of the while loop reaching Simulation.update_state: throw "Override this"
SubStepThrows ==
    /\ pc = "loop"
    /\ LoopCond(time_accumulator, dt)
    /\ cls = "Simulation"
    /\ thrown' = "Override this"
    /\ pc' = "idle"
    /\ h' = [h EXCEPT !.failed = TRUE]
    /\ UNCHANGED <<cls, time_accumulator, time_scale, t, dt, bodies, steps_taken,
                   raining, rain_count, frame_time, drawn, sceneVars>>

\* the loop is left: blend every body, then display draws
SimulateEnd ==
    /\ pc = "loop"
    /\ ~LoopCond(time_accumulator, dt)
    /\ bodies' = BlendAll(bodies, time_accumulator, dt)
    /\ drawn' = Draw(bodies', raining)
    /\ pc' = "idle"
    /\ UNCHANGED <<cls, time_accumulator, time_scale, t, dt, steps_taken, raining,
                   rain_count, frame_time, thrown, h, sceneVars>>

\* the owning scene assigns this.time_scale
SetTimeScale(s) ==
    /\ pc = "idle"
    /\ time_scale # s
    /\ time_scale' = s
    /\ h' = [h EXCEPT !.last = "key"]
    /\ UNCHANGED <<cls, time_accumulator, t, dt, bodies, steps_taken, raining,
                   rain_count, pc, frame_time, thrown, drawn, sceneVars>>

\* "Speed up time": this.time_scale *= 5
SpeedUp ==
    /\ pc = "idle"
    /\ cls = "TotoroScene"
    /\ Abs(time_scale * TimeFactor) <= MaxScale
    /\ time_scale' = time_scale * TimeFactor
    /\ h' = [h EXCEPT !.last = "key"]
    /\ UNCHANGED <<cls, time_accumulator, t, dt, bodies, steps_taken, raining,
                   rain_count, pc, frame_time, thrown, drawn, sceneVars>>

\* "Slow down time": this.time_scale /= 5
SlowDown ==
    /\ pc = "idle"
    /\ cls = "TotoroScene"
    /\ time_scale % TimeFactor = 0
    /\ time_scale' = time_scale \div TimeFactor
    /\ h' = [h EXCEPT !.last = "key"]
    /\ UNCHANGED <<cls, time_accumulator, t, dt, bodies, steps_taken, raining,
                   rain_count, pc, frame_time, thrown, drawn, sceneVars>>

Next ==
    \/ \E animate \in BOOLEAN, ft \in FrameTimes : Display(animate, ft)
    \/ SubStep
    \/ SubStepThrows
    \/ SimulateEnd
    \/ \E s \in TimeScales : SetTimeScale(s)
    \/ SpeedUp
    \/ SlowDown

Spec == Init /\ [][Next]_vars

SpecAnyDt == InitAnyDt /\ [][Next]_vars

\* this.paused ? !flag : flag
Toggled(flag, isPaused) == IF isPaused THEN ~flag ELSE flag

\* a jump key that restarts a jump in progress
MakeJumpAnew(jumping, jump, isPaused) == isPaused /\ ~jump

\* this.totoroIsJumping ? this.totoroJump : (this.paused && !this.totoroJump)
MakeJump(jumping, jump, isPaused) == IF jumping THEN jump ELSE (isPaused /\ ~jump)

\* "Toggle Light": this.lightOn = this.paused ? !this.lightOn : this.lightOn
ToggleLight ==
    /\ pc = "idle"
    /\ cls \in {"TotoroScene", "TotoroSceneEarly"}
    /\ lightOn' = Toggled(lightOn, paused)
    /\ h' = [h EXCEPT !.last = "L"]
    /\ UNCHANGED <<cls, time_accumulator, time_scale, t, dt, bodies, steps_taken, raining,
                   rain_count, pc, frame_time, thrown, drawn, time, time_diff, paused, scene,
                   umbrellaState, totoroPos, facing_angle, totoroPosY, totoroJump,
                   totoroIsJumping, totoroJump_start>>

\* "Toggle Rain": this.raining = this.paused ? !this.raining : this.raining
ToggleRain ==
    /\ pc = "idle"
    /\ cls \in {"TotoroScene", "TotoroSceneEarly"}
    /\ raining' = Toggled(raining, paused)
    /\ h' = [h EXCEPT !.last = "R"]
    /\ UNCHANGED <<cls, time_accumulator, time_scale, t, dt, bodies, steps_taken,
                   rain_count, pc, frame_time, thrown, drawn, sceneVars>>

\* "Open/Close Umbrella": this.umbrellaState = this.paused ? !this.umbrellaState : this.umbrellaState
ToggleUmbrella ==
    /\ pc = "idle"
    /\ cls \in {"TotoroScene", "TotoroSceneEarly"}
    /\ umbrellaState' = Toggled(umbrellaState, paused)
    /\ h' = [h EXCEPT !.last = "U"]
    /\ UNCHANGED <<cls, time_accumulator, time_scale, t, dt, bodies, steps_taken, raining,
                   rain_count, pc, frame_time, thrown, drawn, time, time_diff, paused, scene,
                   lightOn, totoroPos, facing_angle, totoroPosY, totoroJump,
                   totoroIsJumping, totoroJump_start>>

\* "Continue scene": this.paused = false;
\* a behaviour holds at most MaxContinues presses that find the scene paused
ContinueScene ==
    /\ pc = "idle"
    /\ cls \in {"TotoroScene", "TotoroSceneEarly"}
    /\ paused => h.continues < MaxContinues
    /\ paused' = FALSE
    /\ h' = [h EXCEPT !.last = "C", !.continues = IF paused THEN @ + 1 ELSE @]
    /\ UNCHANGED <<cls, time_accumulator, time_scale, t, dt, bodies, steps_taken, raining,
                   rain_count, pc, frame_time, thrown, drawn, time, time_diff, scene,
                   lightOn, umbrellaState, totoroPos, facing_angle, totoroPosY, totoroJump,
                   totoroIsJumping, totoroJump_start>>

\* "Make Totoro jump":
\* this.totoroJump = this.totoroIsJumping ? this.totoroJump : (this.paused && !this.totoroJump)
MakeTotoroJump ==
    /\ pc = "idle"
    /\ cls \in {"TotoroScene", "TotoroSceneEarly"}
    /\ totoroJump' = MakeJump(totoroIsJumping, totoroJump, paused)
    /\ h' = [h EXCEPT !.last = "J"]
    /\ UNCHANGED <<cls, time_accumulator, time_scale, t, dt, bodies, steps_taken, raining,
                   rain_count, pc, frame_time, thrown, drawn, time, time_diff, paused, scene,
                   lightOn, umbrellaState, totoroPos, facing_angle, totoroPosY,
                   totoroIsJumping, totoroJump_start>>

(* The three pools side by side, a few steps each *)
InitPool == InitWith({"TotoroScene", "TotoroSceneEarly", "Assignment3"}, DtValues)

NextPool ==
    \/ \E ft \in FrameTimes : Display(TRUE, ft)
    \/ SubStep
    \/ SubStepEarly
    \/ SubStepAssignment3
    \/ SimulateEnd

SpecPool == InitPool /\ [][NextPool]_vars

(* The whole script: Totoro arrives, the scene pauses, the user makes him jump; and an *)
(* Assignment3 body followed until it strays out of range                             *)
InitLong == InitWith({"TotoroScene", "TotoroSceneEarly", "Assignment3"}, {50})

NextLong ==
    \/ \E ft \in LongFrameTimes : DisplayWithin(MaxLongCalls, TRUE, ft)
    \/ SubStepWithin(MaxLongSteps, LongHeights)
    \/ SubStepEarlyWithin(MaxLongSteps, LongEarlySpawns)
    \/ SubStepAssignment3Within(MaxLongSteps, LongAssignment3Spawns)
    \/ SimulateEnd
    \/ MakeTotoroJump

SpecLong == InitLong /\ [][NextLong]_vars

(* The control panel: the script up to the first moments of the pause, every key of the *)
(* panel pressed at any time between two frames                                        *)
InitKeys == InitWith({"TotoroScene", "TotoroSceneEarly"}, {50})

NextKeys ==
    \/ \E ft \in LongFrameTimes : DisplayWithin(MaxLongCalls, TRUE, ft)
    \/ SubStepWithin(MaxKeySteps, LongHeights)
    \/ SubStepEarlyWithin(MaxKeySteps, LongEarlySpawns)
    \/ SimulateEnd
    \/ ToggleLight
    \/ ToggleRain
    \/ ToggleUmbrella
    \/ MakeTotoroJump
    \/ ContinueScene

SpecKeys == InitKeys /\ [][NextKeys]_vars

(* The interactive scene to its end: Totoro arrives, turns to the viewer while the scene *)
(* is paused, and the user makes him jump and continues the scene whenever they like   *)
InitScene == InitWith({"TotoroScene"}, {50})

NextScene ==
    \/ \E ft \in LongFrameTimes : DisplayWithin(MaxSceneCalls, TRUE, ft)
    \/ SubStepWithin(MaxSceneSteps, LongHeights)
    \/ SimulateEnd
    \/ MakeTotoroJump
    \/ ContinueScene

SpecScene == InitScene /\ [][NextScene]_vars

-----------------------------------------------------------------------------
(* Properties *)

Max(a, b) == IF a > b THEN a ELSE b

Between(x, a, b) == Min(a, b) <= x /\ x <= Max(a, b)

\* position and velocity of every body, in list order
Kinematics(bs) == [i \in 1..Len(bs) |-> <<bs[i].center, bs[i].linear_velocity>>]

\* the scenario of C1: a fresh TotoroScene, dt = 0.05, time_scale = 1, one simulate(0.17), returned
ScenarioDone ==
    /\ cls = "TotoroScene" /\ dt = 50
    /\ h.calls = 1 /\ h.scale = TimeFactor /\ frame_time = 170
    /\ pc = "idle"

\* C1 as stated: simulate(0.17) runs exactly 3 sub-steps, leaves time_accumulator
\* at 0.02 and increases t by 0.15.
C1_AsStated ==
    ScenarioDone => steps_taken = 3 /\ h.substeps = 3 /\ time_accumulator = 20 /\ t = 150

\* C1 amended: the 0.1 ceiling applies to the 0.17, so simulate(0.17) runs exactly
\* 2 sub-steps, leaves time_accumulator at 0 and increases t by 0.10.
C1_ClampedScenario ==
    ScenarioDone => steps_taken = 2 /\ h.substeps = 2 /\ time_accumulator = 0 /\ t = 100

C1_Witness == ScenarioDone /\ steps_taken = 2 /\ Len(bodies) > 0

\* C2: with time_scale 1 in every call and frame times >= 0, steps_taken * dt never
\* exceeds the sum of the frame times passed so far.
C2_NoManufacturedTime ==
    h.scale_one => steps_taken * dt <= h.sum

C2_Witness ==
    /\ h.scale_one /\ pc = "idle" /\ h.calls >= 2
    /\ steps_taken >= 3 /\ steps_taken * dt < h.sum

\* C3 as stated: whatever the sign of the scaled frame time, one call adds at most
\* 0.1 in magnitude to the accumulator, so it runs at most 2 sub-steps when
\* dt = 1/20 and |time_accumulator| < dt on entry.
C3_AsStated ==
    /\ Abs(h.added) <= AccClamp
    /\ (dt = 50 /\ Abs(h.entry_acc) < dt) => h.substeps <= 2

\* C4: while every scaled frame time is >= 0, after every simulate call that
\* returned 0 <= time_accumulator < dt, and every body's drawn_location lies
\* between its previous and its current position.
C4_ConvexBlend ==
    (h.forward /\ ~h.failed /\ pc = "idle") =>
        /\ 0 <= time_accumulator /\ time_accumulator < dt
        /\ \A i \in 1..Len(bodies) : \A k \in 1..3 :
              Between(bodies[i].drawn_location[k], bodies[i].previous[k], bodies[i].center[k])

C4_Witness ==
    /\ h.forward /\ pc = "idle" /\ time_accumulator > 0
    /\ \E i \in 1..Len(bodies) :
          /\ bodies[i].drawn_location[2] # bodies[i].previous[2]
          /\ bodies[i].drawn_location[2] # bodies[i].center[2]

\* C5: whatever the signs of the scaled frame times, after every simulate call
\* that returned |time_accumulator| < dt.
C5_RemainderBelowStep ==
    (~h.failed /\ pc = "idle") => Abs(time_accumulator) < dt

C5_Witness ==
    /\ pc = "idle" /\ ~h.forward /\ h.calls >= 2
    /\ time_accumulator < 0 /\ t > 0

\* C6: t is always a whole multiple of dt; t and steps_taken change only in a
\* sub-step, which adds 1 to steps_taken and +dt (scaled frame time > 0) or -dt
\* (scaled frame time < 0) to t.
C6_WholeSteps ==
    /\ [](t % dt = 0)
    /\ [][(t' # t \/ steps_taken' # steps_taken) =>
             /\ pc = "loop" /\ Abs(time_accumulator) >= dt
             /\ steps_taken' = steps_taken + 1
             /\ \/ frame_time > 0 /\ t' = t + dt
                \/ frame_time < 0 /\ t' = t - dt]_vars

C6_Witness == t = -dt /\ steps_taken = 5 /\ pc = "idle"

\* C7: a simulate call made while time_scale = 0 runs no sub-step and no step of
\* it changes time_accumulator, t, steps_taken, the list of bodies or any body's
\* position and velocity.
C7_FrozenAtZeroScale ==
    [][(h'.scale = 0 /\ h'.last = "simulate" /\ (pc = "loop" \/ pc' = "loop")) =>
          /\ time_accumulator' = time_accumulator
          /\ t' = t
          /\ steps_taken' = steps_taken
          /\ Kinematics(bodies') = Kinematics(bodies)
          /\ h'.substeps = 0]_vars

C7_Witness ==
    /\ h.scale = 0 /\ h.last = "simulate" /\ pc = "idle"
    /\ steps_taken > 0 /\ Len(bodies) > 0 /\ time_accumulator # 0

\* C8: a display call with animate = false runs no simulate: time_accumulator, t,
\* steps_taken and the bodies (drawn_location included) stay as they are, and the
\* second of two such calls in a row draws what the first drew.
C8_StillDisplay ==
    [][(pc = "idle" /\ h'.last = "still") =>
          /\ pc' = "idle"
          /\ h'.calls = h.calls
          /\ time_accumulator' = time_accumulator
          /\ t' = t
          /\ steps_taken' = steps_taken
          /\ bodies' = bodies
          /\ (h.last = "still" => drawn' = drawn)]_vars

C8_Witness ==
    /\ h.last = "still" /\ Len(bodies) > 0 /\ time_accumulator > 0
    /\ drawn = Draw(bodies, TRUE)

\* C9 as stated: without an override the very first simulate call, whatever its
\* frame_time, ends in the 'Override this' error.
C9_AsStated ==
    (cls = "Simulation" /\ h.calls >= 1 /\ pc = "idle") => h.failed

\* C9 amended: without an override a simulate call ends in the 'Override this'
\* error exactly when the accumulated time has reached a whole step
\* (|time_accumulator| >= dt once the clamped frame time is added), with no body
\* advanced and t and steps_taken unchanged; a call that accumulates less returns
\* normally.
C9_ThrowsAtFirstStep ==
    cls = "Simulation" =>
        /\ t = 0 /\ steps_taken = 0 /\ h.substeps = 0 /\ bodies = << >>
        /\ (pc = "idle" /\ h.last = "simulate") =>
              (thrown = "Override this" <=> Abs(time_accumulator) >= dt)
        /\ (pc = "idle" /\ ~h.failed) => Abs(time_accumulator) < dt

C9_Witness ==
    /\ cls = "Simulation" /\ thrown = "Override this" /\ h.calls = 3
    /\ h.forward /\ dt = 50 /\ time_accumulator = 60

\* C10 as stated: with dt <= 0 a simulate call ends in an error and neither steps
\* nor loops.
C10_AsStated ==
    (dt <= 0 /\ h.calls >= 1) => (steps_taken = 0 /\ (pc = "idle" => h.failed))

\* What the code does with dt <= 0 instead: dt is never checked, the loop
\* condition holds whatever the accumulator, so a simulate call of a scene that
\* overrides update_state keeps sub-stepping and never reaches blend_state, and a
\* call on the base class ends in the 'Override this' error of update_state.
C10_NonPositiveStepLoops ==
    (dt <= 0 /\ h.calls >= 1) =>
        /\ Abs(time_accumulator) >= dt
        /\ cls = "TotoroScene" => (pc = "loop" /\ thrown = "none")
        /\ cls = "Simulation" => (pc = "idle" => h.failed)

C10_Witness == dt <= 0 /\ cls = "TotoroScene" /\ h.calls = 1 /\ steps_taken >= 5

-----------------------------------------------------------------------------
(* The pools: properties of the last update_state call, read from h.update *)

\* the Body objects of a list
Ids(bs) == {bs[i].id : i \in 1..Len(bs)}

\* the bodies the replenish loop of the call pushed
NewBodies(u) == {u.spawned[i].id : i \in (Len(u.before) + 1)..Len(u.spawned)}

\* C12, as stated: every update_state call of the final TotoroScene and of Assignment3
\* pushes exactly max(0, target - bodies.length) bodies, and no body pushed in a call
\* is removed by the filter of that same call.
C12_AsStated ==
    cls \in {"TotoroScene", "Assignment3"} =>
        /\ Cardinality(NewBodies(h.update)) = Max(0, h.update.target - Len(h.update.before))
        /\ NewBodies(h.update) \subseteq Ids(h.update.final)

\* What the code does: the count is as stated in every pool, and the final TotoroScene
\* keeps what it has just pushed.
C12_FinalSceneKeepsNewBodies ==
    /\ Cardinality(NewBodies(h.update)) = Max(0, h.update.target - Len(h.update.before))
    /\ cls = "TotoroScene" => NewBodies(h.update) \subseteq Ids(h.update.final)

\* floor height and restitution (tenths) of each pool, as written in its update_state
FloorOf(c) ==
    IF c = "TotoroScene" THEN FloorHeight
    ELSE IF c = "TotoroSceneEarly" THEN EarlyFloor ELSE Assignment3Floor

RestitutionOf(c) == IF c = "Assignment3" THEN Assignment3Restitution ELSE EarlyRestitution

\* the floor-bounce events of a call: positions in the list the floor test is run on
\* where the body is below the floor and moving down
BounceEvents(u, c) ==
    {i \in 1..Len(u.floor_in) :
        u.floor_in[i].center[2] < FloorOf(c) /\ u.floor_in[i].linear_velocity[2] < 0}

\* C13: in every floor-bounce event the vertical velocity after the bounce is strictly
\* positive and strictly smaller in magnitude than before: the incoming speed times
\* 0.2 in TotoroScene, times 0.8 in Assignment3 (kept to 1/1000 unit/s).
C13_BounceLosesSpeed ==
    \A i \in BounceEvents(h.update, cls) :
        LET vin == h.update.floor_in[i].linear_velocity[2]
            vout == h.update.floor_out[i].linear_velocity[2]
        IN  /\ vout > 0
            /\ vout < -vin
            /\ 10 * vout <= RestitutionOf(cls) * (-vin)
            /\ 10 * vout > RestitutionOf(cls) * (-vin) - 10

\* an Assignment3 body that moves sideways bounces and stays in the list
C13_Witness ==
    /\ cls = "Assignment3"
    /\ \E i \in BounceEvents(h.update, cls) :
          /\ h.update.floor_out[i].linear_velocity[1] # 0
          /\ h.update.floor_out[i].id \in Ids(h.update.final)

\* the body of the scenario: height 0.4, vertical velocity -2.0, drifting sideways
ScenarioBody ==
    [id |-> 1] @@ [emplace(<<1000000, 400000, -2000000>>, <<300, -2000, -700>>, "rain")
                     EXCEPT !.previous = <<1000000, 500000, -2000000>>]

\* C14: the floor response of the final TotoroScene sets a body with height < 0.5 and
\* vy < 0 to height exactly 0.5 and vy to -0.2 * vy (0.4, -2.0 becomes 0.5, +0.4),
\* leaves every other body as it is, and never touches a horizontal position or velocity.
C14_FloorResponse ==
    /\ FloorResponse(ScenarioBody)
         = [ScenarioBody EXCEPT !.center[2] = 500000, !.linear_velocity[2] = 400]
    /\ cls = "TotoroScene" =>
          /\ Len(h.update.floor_out) = Len(h.update.floor_in)
          /\ \A i \in 1..Len(h.update.floor_in) :
                LET a == h.update.floor_in[i]
                    b == h.update.floor_out[i]
                IN  IF a.center[2] < 500000 /\ a.linear_velocity[2] < 0
                    THEN b = [a EXCEPT !.center[2] = 500000,
                                       !.linear_velocity[2] = (-2 * a.linear_velocity[2]) \div 10]
                    ELSE b = a

\* a body has just been lifted onto the floor and turned
C14_Witness ==
    /\ cls = "TotoroScene"
    /\ \E i \in BounceEvents(h.update, cls) :
          /\ h.update.floor_in[i].center[2] < 500000
          /\ h.update.floor_out[i].center[2] = 500000
          /\ h.update.floor_out[i].linear_velocity[2] > 0

\* C15: at the end of every update_state call of the final TotoroScene no live body is
\* both below height 0.5 and moving downward.
C15_NothingSinksBelowFloor ==
    cls = "TotoroScene" =>
        \A i \in 1..Len(h.update.final) :
            ~(h.update.final[i].center[2] < 500000 /\ h.update.final[i].linear_velocity[2] < 0)

\* a body that fell through the floor from above during the last advance is back on it
C15_Witness ==
    /\ cls = "TotoroScene"
    /\ \E i \in 1..Len(h.update.final) :
          /\ h.update.final[i].previous[2] > 500000
          /\ h.update.final[i].center[2] = 500000
          /\ \E j \in 1..Len(h.update.before) :
                /\ h.update.before[j].id = h.update.final[i].id
                /\ h.update.before[j].center[2] < 500000

\* gravity times the step, in 1/1000 unit/s: 1 * dt in TotoroScene, 9.8 * dt in Assignment3
GravityStep(c, d) == IF c = "Assignment3" THEN (98 * d) \div 10 ELSE d

-----------------------------------------------------------------------------
(* The order of work inside one pass of the loop *)

\* a body one advance(d) after f: moved by its own velocity once, previous remembered
MovedOnce(f, b, d) ==
    /\ b.id = f.id
    /\ b.linear_velocity = f.linear_velocity
    /\ b.previous = f.center
    /\ \A k \in 1..3 : b.center[k] = f.center[k] + f.linear_velocity[k] * d

\* C19: every sub-step runs update_state(dt) once on the list as it stands, then
\* advance(dt) once on exactly the bodies update_state returned (new ones included,
\* removed ones not), then moves t, time_accumulator and steps_taken; the members of
\* the list change in no other step, neither while blending nor while drawing.
C19_SubStepOrder ==
    [][/\ steps_taken' # steps_taken =>
            /\ steps_taken' = steps_taken + 1
            /\ h'.update.before = bodies
            /\ h'.update.step = dt
            /\ cls # "Assignment3" => time' = time + dt
            /\ Len(bodies') = Len(h'.update.final)
            /\ \A i \in 1..Len(bodies') : MovedOnce(h'.update.final[i], bodies'[i], dt)
            /\ t' = t + Sign(frame_time) * dt
            /\ time_accumulator' = time_accumulator - Sign(frame_time) * dt
       /\ steps_taken' = steps_taken =>
            /\ Kinematics(bodies') = Kinematics(bodies)
            /\ [i \in 1..Len(bodies') |-> bodies'[i].id] = [i \in 1..Len(bodies) |-> bodies[i].id]
            /\ h'.update = h.update
            /\ time' = time]_vars

\* an earlier body has been removed, and the pass just made has pushed its successor
\* onto the empty list and advanced it
C19_Witness ==
    /\ steps_taken >= 2
    /\ Len(h.update.before) = 0
    /\ NewBodies(h.update) # {}
    /\ \E i \in 1..Len(bodies) :
          /\ bodies[i].id \in NewBodies(h.update)
          /\ bodies[i].center # bodies[i].previous
          /\ bodies[i].previous = h.update.final[i].center

\* C18: a body enters the list once, emplaced by the replenish loop, is pulled and
\* possibly bounced only while it is in the list, and once filtered out never comes
\* back: Spawned -> Falling -> (BouncingOnFloor <-> Falling)* -> Retired.
C18_BodyLifecycle ==
    /\ [](/\ \A i, j \in 1..Len(bodies) : bodies[i].id = bodies[j].id => i = j
          /\ \A i \in 1..Len(bodies) : bodies[i].id <= Born(steps_taken)
          /\ \A i \in BounceEvents(h.update, cls) :
                h.update.floor_in[i].id \in Ids(h.update.spawned))
    /\ [][/\ \A k \in Ids(bodies') \ Ids(bodies) :
               /\ k > Born(steps_taken)
               /\ k \in NewBodies(h'.update)
          /\ \A i \in (Len(h'.update.before) + 1)..Len(h'.update.spawned) :
               /\ h'.update.spawned[i].previous = h'.update.spawned[i].center
               /\ h'.update.spawned[i].drawn_location = h'.update.spawned[i].center]_vars

\* a later body of the final TotoroScene, pushed after the first was filtered out,
\* bounces on the floor
C18_Witness ==
    /\ cls = "TotoroScene"
    /\ \E i \in BounceEvents(h.update, cls) : h.update.floor_in[i].id > Born(1)

-----------------------------------------------------------------------------
(* The pool and the jump *)

\* the last update_state call removed no body
NoneRetired(u) == Len(u.final) = Len(u.spawned)

\* C11, as stated: after any step of TotoroScene whose replenish loop pushed a body and
\* whose filter removed none, bodies.length equals rain_count as it stands after the
\* step, the step that follows a jump landing included.
C11_AsStated ==
    (/\ cls \in {"TotoroScene", "TotoroSceneEarly"}
     /\ NewBodies(h.update) # {}
     /\ NoneRetired(h.update)) => Len(bodies) = rain_count

\* C11, amended: after such a step bodies.length equals the value rain_count had when
\* the step began.  That is rain_count after the step too, except in the step where a
\* jump lands (the target is raised after the list was filled to the normal count)
\* and in the step that follows it (the list is filled to jump_rain_count and the
\* target is back to normal_rain_count within the same call).
C11_ListMatchesTargetAtCall ==
    (/\ cls \in {"TotoroScene", "TotoroSceneEarly"}
     /\ NewBodies(h.update) # {}
     /\ NoneRetired(h.update)) =>
        /\ Len(bodies) = h.update.target
        /\ h.update.target = jump_rain_count => rain_count = normal_rain_count
        /\ h.update.target = normal_rain_count =>
              IF totoroPosY = GroundY /\ ~totoroJump /\ ~totoroIsJumping /\ paused
                 /\ rain_count # normal_rain_count
              THEN rain_count = jump_rain_count
              ELSE rain_count = normal_rain_count

\* the step after a landing: the list holds jump_rain_count bodies, none was removed,
\* and rain_count is normal_rain_count again
C11_Witness ==
    /\ cls = "TotoroScene"
    /\ h.update.target = jump_rain_count
    /\ NewBodies(h.update) # {}
    /\ NoneRetired(h.update)
    /\ Len(bodies) = jump_rain_count
    /\ rain_count = normal_rain_count

\* the materials of the bodies the replenish loop of the call pushed
NewMaterials(u) == {u.spawned[i].material : i \in (Len(u.before) + 1)..Len(u.spawned)}

\* C17: the burst is one-shot.  A call of the final TotoroScene.update_state that starts
\* with rain_count = jump_rain_count fills the list up to jump_rain_count, every body
\* it pushes is rainBright, and rain_count is normal_rain_count again when the call
\* returns; every other call fills to normal_rain_count with the ordinary rain material.
C17_OneShotBurst ==
    [][(steps_taken' # steps_taken /\ cls = "TotoroScene") =>
          IF rain_count = jump_rain_count
          THEN /\ h'.update.target = jump_rain_count
               /\ Len(h'.update.spawned) = Max(Len(bodies), jump_rain_count)
               /\ NewMaterials(h'.update) \subseteq {"rainBright"}
               /\ rain_count' = normal_rain_count
          ELSE /\ rain_count = normal_rain_count
               /\ h'.update.target = normal_rain_count
               /\ Len(h'.update.spawned) = Max(Len(bodies), normal_rain_count)
               /\ NewMaterials(h'.update) \subseteq {"rain"}]_vars

\* the burst has happened: bright drops were pushed up to jump_rain_count
C17_Witness ==
    /\ cls = "TotoroScene"
    /\ h.update.target = jump_rain_count
    /\ Len(h.update.spawned) = jump_rain_count
    /\ NewMaterials(h.update) = {"rainBright"}

\* a body fails the keep-alive test of its pool: rising at speed <= 1.2 in the final
\* TotoroScene; 50 or more from the origin, or speed <= 3, in the two other pools
FailsKeepAlive(c, b) ==
    IF c = "TotoroScene"
    THEN b.linear_velocity[2] > 0 /\ NormSq(b.linear_velocity) <= 1200 * 1200
    ELSE \/ NormSq(Coarse(b.center)) >= 5000 * 5000
         \/ NormSq(b.linear_velocity) <= 3000 * 3000

\* C16: retirement has no false negatives: a body that fails the keep-alive test at the
\* end of step k is not in the list at the end of step k+1.
C16_FailingBodiesAreRetired ==
    [][steps_taken' # steps_taken =>
          \A i \in 1..Len(bodies) :
              FailsKeepAlive(cls, bodies[i]) => bodies[i].id \notin Ids(bodies')]_vars

\* an Assignment3 body strayed 50 away from the origin and the next step dropped it
C16_Witness ==
    /\ cls = "Assignment3"
    /\ \E j \in 1..Len(h.update.before) :
          /\ NormSq(Coarse(h.update.before[j].center)) >= 5000 * 5000
          /\ NormSq(h.update.before[j].linear_velocity) > 3000 * 3000
          /\ h.update.before[j].id \notin Ids(bodies)

-----------------------------------------------------------------------------
(* The stepper under forward and reverse time *)

\* C23: for dt > 0 and a call entered with |time_accumulator| < dt, every pass of the
\* sub-step loop finds the sign of the scaled frame time equal to the sign of the
\* accumulator and moves the accumulator toward zero by exactly dt, so a call runs at
\* most |accumulator after the add| / dt passes and then leaves the loop; this holds
\* also when forward and reverse calls alternate.
C23_LoopMovesTowardZero ==
    [][(steps_taken' # steps_taken /\ dt > 0 /\ Abs(h.entry_acc) < dt) =>
            /\ Sign(frame_time) = Sign(time_accumulator)
            /\ Abs(time_accumulator') = Abs(time_accumulator) - dt
            /\ h'.substeps <= Abs(h.entry_acc + h.added) \div dt
            /\ (h'.substeps = Abs(h.entry_acc + h.added) \div dt
                    => ~LoopCond(time_accumulator', dt))]_vars

\* a reverse call that follows forward stepping, entered with a positive remainder,
\* has run its passes and left the loop
C23_Witness ==
    /\ pc = "idle" /\ h.last = "simulate"
    /\ h.fwd >= 1 /\ h.rev >= 2 /\ h.substeps >= 2
    /\ frame_time < 0 /\ h.entry_acc > 0
    /\ Abs(time_accumulator) < dt

\* C24: t + time_accumulator equals the sum over all simulate calls so far of
\* min(time_scale * frame_time, 0.1), whatever the signs: sub-steps only move time
\* between the accumulator and t.
C24_TimeIsConserved == t + time_accumulator = h.total

\* forward and reverse passes have both run, and the last call was cut by the clamp
C24_Witness ==
    /\ pc = "idle" /\ h.last = "simulate"
    /\ h.fwd >= 1 /\ h.rev >= 1
    /\ frame_time = 170 /\ h.added = AccClamp
    /\ h.total < h.sum

\* C25: every sub-step hands +dt to update_state and to every advance and adds 1 to
\* steps_taken, whatever the sign of the scaled frame time: steps_taken is the number
\* of forward plus reverse passes, t is dt times (forward minus reverse), and a reverse
\* pass lowers t while the bodies and TotoroScene.time still step forward.
C25_StepsAlwaysForward ==
    [][/\ steps_taken' = h'.fwd + h'.rev
       /\ t' = dt * (h'.fwd - h'.rev)
       /\ steps_taken' # steps_taken =>
            /\ steps_taken' = steps_taken + 1
            /\ h'.update.step = dt
            /\ time' = time + dt
            /\ Len(bodies') = Len(h'.update.final)
            /\ \A i \in 1..Len(bodies') : MovedOnce(h'.update.final[i], bodies'[i], dt)
            /\ frame_time < 0 => (t' = t - dt /\ h'.rev = h.rev + 1 /\ h'.fwd = h.fwd)
            /\ frame_time > 0 => (t' = t + dt /\ h'.fwd = h.fwd + 1 /\ h'.rev = h.rev)]_vars

\* reverse playback has taken t below zero while the scene clock and a body moved on
C25_Witness ==
    /\ h.rev > h.fwd /\ h.fwd >= 1
    /\ t < 0 /\ time = steps_taken * dt /\ time > 0
    /\ Len(bodies) > 0 /\ frame_time < 0

-----------------------------------------------------------------------------
(* The control panel *)

\* the fields of the scene a key of the panel can reach, and everything else but the history
PanelState == <<lightOn, raining, umbrellaState, totoroJump>>

RestOfScene == <<cls, time_accumulator, time_scale, t, dt, bodies, steps_taken, rain_count,
                 pc, frame_time, thrown, drawn, time, time_diff, paused, scene, totoroPos,
                 facing_angle, totoroPosY, totoroIsJumping, totoroJump_start>>

\* C21, as stated: with paused = false the L, R, U and J handlers leave lightOn, raining,
\* umbrellaState, totoroJump and all other scene state unchanged; with paused = true
\* L, R and U each invert exactly their own flag.
C21_AsStated ==
    [][h'.last \in {"L", "R", "U", "J"} =>
          /\ UNCHANGED RestOfScene
          /\ ~paused => UNCHANGED PanelState
          /\ (paused /\ h'.last = "L") =>
                (lightOn' = ~lightOn /\ UNCHANGED <<raining, umbrellaState, totoroJump>>)
          /\ (paused /\ h'.last = "R") =>
                (raining' = ~raining /\ UNCHANGED <<lightOn, umbrellaState, totoroJump>>)
          /\ (paused /\ h'.last = "U") =>
                (umbrellaState' = ~umbrellaState /\ UNCHANGED <<lightOn, raining, totoroJump>>)]_vars

\* What the code does: the same, except that J pressed while the scene is not paused
\* withdraws a jump that was requested during the pause and has not started yet.
C21_ExceptPendingJump ==
    [][h'.last \in {"L", "R", "U", "J"} =>
          /\ UNCHANGED RestOfScene
          /\ ~paused => \/ UNCHANGED PanelState
                        \/ /\ h'.last = "J" /\ totoroJump /\ ~totoroIsJumping /\ ~totoroJump'
                           /\ UNCHANGED <<lightOn, raining, umbrellaState>>
          /\ (paused /\ h'.last = "L") =>
                (lightOn' = ~lightOn /\ UNCHANGED <<raining, umbrellaState, totoroJump>>)
          /\ (paused /\ h'.last = "R") =>
                (raining' = ~raining /\ UNCHANGED <<lightOn, umbrellaState, totoroJump>>)
          /\ (paused /\ h'.last = "U") =>
                (umbrellaState' = ~umbrellaState /\ UNCHANGED <<lightOn, raining, totoroJump>>)]_vars

\* the state J changes outside the pause: a jump requested, not started, the scene continued
C21_PendingJumpUnpaused ==
    /\ ~paused /\ totoroJump /\ ~totoroIsJumping /\ h.last = "C"

-----------------------------------------------------------------------------
(* The jump and the pause *)

\* the one place that sets paused (lines 804-808) can still run
PauseAhead == totoroPos <= 0 /\ facing_angle < 0

\* Totoro stands on the ground, no jump requested or in progress
Landed == ~totoroJump /\ ~totoroIsJumping /\ totoroPosY = GroundY

\* a jump accepted or in progress in a scene that is not paused and cannot be paused again:
\* the jump code (lines 832-840) runs only inside if (this.paused)
Frozen == totoroJump /\ ~paused /\ ~PauseAhead /\ time > 80000

\* C22, as stated, in the form a finite run can refute: an accepted jump eventually lands
\* under every interleaving of the other keys, "Continue scene" included, so no reachable
\* state holds a jump that can never go on: whenever a jump is accepted or in the air,
\* the scene is paused or the next sub-step pauses it.
C22_AsStated == totoroJump => (paused \/ PauseAhead)

\* What makes such a state final: once the turn to the viewer is over nothing sets paused
\* again, so a jump that "Continue scene" has caught stays as it is in every later step
\* but a press of J before take-off.
C22_FrozenForGood ==
    [][(Frozen /\ totoroIsJumping) =>
          (Frozen' /\ UNCHANGED <<totoroPosY, totoroIsJumping, totoroJump_start, rain_count>>)]_vars

\* Totoro hangs in the air while sub-steps go on
C22_HangsInTheAir ==
    /\ Frozen /\ totoroIsJumping /\ totoroPosY > GroundY
    /\ h.last = "simulate" /\ pc = "idle" /\ h.substeps >= 2

\* What the code does for a jump within the pause: it lands, and the landing raises the
\* target so that the next sub-step spawns the extra raindrops.
C22_LandingRaisesTarget ==
    [][(totoroIsJumping /\ ~totoroIsJumping') =>
          /\ Landed' /\ totoroJump_start' = 0
          /\ rain_count' = jump_rain_count
          /\ paused']_vars

-----------------------------------------------------------------------------
(* The size of the pool *)

\* C26: the live population of TotoroScene never exceeds jump_rain_count; it exceeds
\* normal_rain_count only through a pass whose target a jump landing has raised (the
\* target is raised by a landing and by nothing else, for one pass); and outside that
\* pass no body is spawned unless bodies.length is below normal_rain_count.
C26_PopulationBounded ==
    [][/\ Len(bodies') <= jump_rain_count
       /\ rain_count' \in {normal_rain_count, jump_rain_count}
       /\ (rain_count' = jump_rain_count /\ rain_count # jump_rain_count)
              => (steps_taken' # steps_taken /\ totoroIsJumping /\ Landed')
       /\ (rain_count = jump_rain_count /\ steps_taken' # steps_taken)
              => rain_count' = normal_rain_count
       /\ (Len(bodies') > normal_rain_count)
              => (Len(bodies) > normal_rain_count \/ rain_count = jump_rain_count)
       /\ (steps_taken' # steps_taken /\ NewBodies(h'.update) # {})
              => \/ Len(bodies) < normal_rain_count
                 \/ rain_count = jump_rain_count /\ Len(bodies) < jump_rain_count]_vars

\* the pass after a landing has filled the pool to jump_rain_count
C26_Witness ==
    /\ Len(bodies) = jump_rain_count /\ Len(bodies) > normal_rain_count
    /\ h.update.target = jump_rain_count /\ NewBodies(h.update) # {}
    /\ rain_count = normal_rain_count

-----------------------------------------------------------------------------
(* The scene clock *)

\* C27: in TotoroScene time = steps_taken * dt and 0 <= time_diff <= time; time_diff
\* grows by dt in exactly the sub-steps that start with paused = true, and in no other
\* step, so the effective time (time - time_diff) never decreases and stays constant
\* across every sub-step that starts paused.
C27_SceneClock ==
    [][/\ time' = steps_taken' * dt
       /\ 0 <= time_diff' /\ time_diff' <= time'
       /\ steps_taken' # steps_taken =>
             /\ time' = time + dt
             /\ time_diff' = IF paused THEN time_diff + dt ELSE time_diff
             /\ paused => time' - time_diff' = time - time_diff
             /\ ~paused => time' - time_diff' = time - time_diff + dt
       /\ steps_taken' = steps_taken => UNCHANGED <<time, time_diff>>
       /\ time' - time_diff' >= time - time_diff]_vars

\* the scene was continued during the turn and paused again by the next sub-step: the
\* pause clock has run, but for less than the time since the pause began
C27_Witness ==
    /\ paused /\ h.continues >= 1 /\ pc = "idle" /\ h.last = "simulate"
    /\ time_diff > 0
    /\ time - time_diff > 73400

-----------------------------------------------------------------------------
(* The jump flags *)

\* C28: in every reachable state of TotoroScene totoroIsJumping implies totoroJump,
\* totoroPosY >= 1.1, and totoroJump_start != 0 only while totoroJump is true; pressing
\* J while totoroIsJumping is true changes nothing, so the key neither restarts nor
\* cancels a jump in progress.
C28_JumpFlags ==
    [][/\ totoroIsJumping' => totoroJump'
       /\ totoroPosY' >= GroundY
       /\ totoroJump_start' # 0 => totoroJump'
       /\ (h'.last = "J" /\ totoroIsJumping) => UNCHANGED <<PanelState, RestOfScene>>]_vars

\* J has been pressed while Totoro is in the air
C28_Witness ==
    /\ h.last = "J" /\ totoroIsJumping /\ totoroJump
    /\ totoroPosY > GroundY /\ totoroJump_start # 0
    /\ time > totoroJump_start

-----------------------------------------------------------------------------
(* "Continue scene" *)

\* C29, as stated: once "Continue scene" has set paused to false no later sub-step sets
\* it back to true, whenever during the paused scene the key is pressed.
C29_AsStated ==
    [][(h.continues >= 1 /\ ~paused) => ~paused']_vars

\* What the code does: the key holds once Totoro has finished his turn to the viewer;
\* pressed earlier, it is undone by the next sub-step (lines 804-808).
C29_HoldsAfterTheTurn ==
    [][(~paused /\ totoroPos <= 0 /\ steps_taken' # steps_taken)
          => (paused' <=> PauseAhead)]_vars

\* the scene continued during the turn and paused again by the sub-step that followed
C29_PausedAgain ==
    /\ paused /\ h.continues >= 1 /\ h.last = "simulate" /\ pc = "loop" /\ h.substeps = 1
    /\ time_diff < time - 73400

====
